---- MODULE Spec2Model ----
(***************************************************************************)
(* Model of the bump transaction workflow of src/src/index.ts: the async   *)
(* function main, the exit latch handleExit, the rollback performCleanup   *)
(* and the process-level SIGINT / uncaughtException / unhandledRejection   *)
(* handlers.  Node runs all of them on one event loop: a state of the      *)
(* model is the program between two event-loop turns, and every action is  *)
(* one turn (the code that runs from the resumption of an await, or from   *)
(* the delivery of a signal, up to the next suspension).                   *)
(***************************************************************************)
EXTENDS Integers, Sequences, FiniteSets, TLC

\* ---------------------------------------------------------------- bounds
MaxPreNum == 2       \* largest prerelease counter of a starting version
MaxPreviews == 2     \* preview calls between two real `npm version` calls
MaxApplies == 2      \* successful real `npm version` calls on one repository

\* ------------------------------------------------------- semantic versions
\* A prerelease identifier is numeric or alphanumeric.
Num(n) == [num |-> TRUE, n |-> n, s |-> ""]
Str(s) == [num |-> FALSE, n |-> 0, s |-> s]
Ver(ma, mi, pa, pre) == [major |-> ma, minor |-> mi, patch |-> pa, pre |-> pre]

validBumpTypes ==
  {"major", "minor", "patch", "premajor", "preminor", "prepatch", "prerelease"}

\* config.bumpType.includes('pre')
IsPreType(t) == t \in {"premajor", "preminor", "prepatch", "prerelease"}

\* Index of the last numeric identifier of a prerelease list, 0 when none.
RECURSIVE LastNumeric(_, _)
LastNumeric(pre, i) ==
  IF i = 0 THEN 0
  ELSE IF pre[i].num THEN i ELSE LastNumeric(pre, i - 1)

\* The 'pre' step of the version increment done by `npm version`:
\* bump the last numeric identifier (or append 0), then switch to the
\* identifier when one is given and it is not already the leading one.
IncPre(v, id) ==
  LET bumped ==
        IF Len(v.pre) = 0 THEN << Num(0) >>
        ELSE LET i == LastNumeric(v.pre, Len(v.pre)) IN
             IF i = 0 THEN Append(v.pre, Num(0))
             ELSE [v.pre EXCEPT ![i] = Num(v.pre[i].n + 1)]
      fresh == << Str(id), Num(0) >>
      withId ==
        IF id = "" THEN bumped
        ELSE IF bumped[1] = Str(id)
             THEN (IF Len(bumped) >= 2 /\ bumped[2].num THEN bumped ELSE fresh)
             ELSE fresh
  IN [v EXCEPT !.pre = withId]

IncPatch(v) ==
  IF Len(v.pre) = 0 THEN Ver(v.major, v.minor, v.patch + 1, << >>)
  ELSE Ver(v.major, v.minor, v.patch, << >>)

\* `npm version <kind> [--preid=<id>]`: the next version (id = "" when the
\* --preid argument is not passed).
NpmVersionInc(v, kind, id) ==
  CASE kind = "major" ->
         IF v.minor # 0 \/ v.patch # 0 \/ Len(v.pre) = 0
         THEN Ver(v.major + 1, 0, 0, << >>)
         ELSE Ver(v.major, 0, 0, << >>)
    [] kind = "minor" ->
         IF v.patch # 0 \/ Len(v.pre) = 0
         THEN Ver(v.major, v.minor + 1, 0, << >>)
         ELSE Ver(v.major, v.minor, 0, << >>)
    [] kind = "patch" -> IncPatch(v)
    [] kind = "premajor" -> IncPre(Ver(v.major + 1, 0, 0, << >>), id)
    [] kind = "preminor" -> IncPre(Ver(v.major, v.minor + 1, 0, << >>), id)
    [] kind = "prepatch" ->
         IncPre(Ver(v.major, v.minor, v.patch + 1, << >>), id)
    [] kind = "prerelease" ->
         IncPre(IF Len(v.pre) = 0 THEN IncPatch(v) ELSE v, id)

\* The version the preview call writes to package.json and prints:
\* `npm version --no-git-tag-version --no-commit-hooks <kind>`, no --preid.
PreviewOf(v, kind) == NpmVersionInc(v, kind, "")

\* The tag `npm version` prints and creates: the version behind the
\* tag-version-prefix "v".  NoTag is the empty string of a missing tag.
TagOf(v) == [prefix |-> "v", version |-> v]
NoTag == [prefix |-> "", version |-> Ver(0, 0, 0, << >>)]

\* Pre-release identifiers the user can type at the prompt ("" = empty input).
PreIds == {"", "beta", "rc"}

\* Manifest versions the run can start from.
StartVersions ==
  {Ver(1, 2, 3, << >>)}
  \cup {Ver(1, 2, 3, << Str("beta"), Num(MaxPreNum) >>)}

\* Numbers of stash entries the user can have when the run starts.
UserStashes == {0, 1}

\* Tag sets the repository can hold when the run starts.
StartTags == {{}, {TagOf(Ver(1, 2, 4, << >>))}}

\* ------------------------------------------------------------------ state
VARIABLES
  pc,            \* position of main: the call it awaits, "done" once returned
  config,        \* BumpCommandConfig: bumpType, preId, stashChanges
  newTag,        \* main's local newTag (stdout of the preview call)
  interrupted,   \* let interrupted
  isExiting,     \* let isExiting
  cleanup,       \* let cleanup: the array the variable is bound to
  replayArr,     \* the array object performCleanup iterates
  aliased,       \* TRUE while cleanup is still bound to that array object
  replayIdx,     \* position of the array iterator of performCleanup
  hpc,           \* position of handleExit/performCleanup
  exitArg,       \* the code passed to the handleExit call that took the latch
  exitCause,     \* the caller of that handleExit call ("none" before it)
  exited,        \* the process has terminated
  exitStatus,    \* the process exit code once exited
  reported,      \* 'Version bumped successfully!' was printed
  pkgVersion,    \* version field of package.json in the working tree
  history,       \* manifest versions of the commits on the branch, oldest first
  tags,          \* tags of the repository
  stash,         \* number of entries on the stash stack
  \* observations of the run, written but never read by the program
  mainLog,       \* repository-changing calls started by main, in order
  afterInt,      \* calls main started while interrupted was already set
  rbLog,         \* inverse operations started by performCleanup, in order
  rbFailed,      \* inverse operations that failed
  recorded,      \* types of the ledger entries in insertion order
  failedAt,      \* the calls of main that failed
  ledgerAtInt,   \* entry types of the ledger at the first SIGINT
                 \* (<<"none">> before it)
  cleanupStarts, \* number of times performCleanup was entered
  reentered,     \* handleExit was called again after the latch was taken
  createdTag,    \* the tag the real `npm version` created (NoTag before)
  changes,       \* where the user's uncommitted changes are: "none" when the
                 \* tree was clean, else "worktree", "index", "stash",
                 \* "commit" (inside the bump commit) or "lost"
  userStash,     \* stash entries the user had before the run (never written)
  landedOps,     \* calls of main whose child process has already done its
                 \* work in the repository
  pcAtInt,       \* the call main awaited at the first SIGINT ("none" before)
  checks,        \* outcomes of the checks main made ("noRemoteQuiet": the
                 \* remote query gave no URL while handleExit had not been
                 \* called)
  previews       \* the tags the preview call printed since the last
                 \* successful real `npm version`, oldest first

mainVars == << pc, config, newTag, reported, mainLog, afterInt, failedAt >>
exitVars == << isExiting, replayIdx, hpc, exitArg, exitCause, exited,
              exitStatus, rbLog, cleanupStarts, reentered >>
arrayVars == << cleanup, replayArr, aliased >>
repoVars == << pkgVersion, history, tags, stash, createdTag, changes,
              landedOps, userStash >>
vars == << pc, config, newTag, interrupted, isExiting, cleanup, replayArr,
           aliased, replayIdx, hpc, exitArg, exitCause, exited, exitStatus,
           reported,
           pkgVersion, history, tags, stash, mainLog,
           afterInt, rbLog, rbFailed, recorded, failedAt, ledgerAtInt,
           cleanupStarts, reentered, createdTag, changes, landedOps,
           userStash,
           pcAtInt, checks, previews >>

\* Calls of main that spawn a version-control or package-manager process.
ExternalOps ==
  {"checkIsRepo", "tags", "revparseBranch", "status", "stashPush", "add",
   "npmPreview", "checkoutPkg", "npmVersion", "stashPop", "revparsePush",
   "remote", "push", "pushTags", "fetch"}

\* Calls of main that change the working tree, the index, the repository
\* or the remote.
MutatingOps ==
  {"stashPush", "add", "npmPreview", "checkoutPkg", "npmVersion", "stashPop",
   "push", "pushTags", "fetch"}

\* Suspensions of main on an interactive prompt or on the update check.
PromptOps ==
  {"checkForUpdates", "promptBumpType", "promptIfPreId", "promptPreId",
   "promptCommitMessage", "promptCommitChanges",
   "promptContinueEvenThoChanges", "promptPushChanges"}

\* Inverse operations of the rollback.
InverseOps == {"pop", "reset", "tagdel"}

StashItem == [type |-> "stash", tag |-> NoTag]
\* A version entry pushed with the type of the stash entry.
VersionItemAsStash(t) == [type |-> "stash", tag |-> t]

VersionItem(t) == [type |-> "version", tag |-> t]

Reverse(s) == [i \in 1..Len(s) |-> s[Len(s) + 1 - i]]

\* The variables of the process and the observations before main starts.
ProcessInit ==
  /\ newTag = NoTag
  /\ interrupted = FALSE
  /\ isExiting = FALSE
  /\ cleanup = << >>
  /\ replayArr = << >>
  /\ aliased = FALSE
  /\ replayIdx = 0
  /\ hpc = "idle"
  /\ exitArg = 0
  /\ exitCause = "none"
  /\ exited = FALSE
  /\ exitStatus = 0
  /\ reported = FALSE
  /\ mainLog = << >>
  /\ afterInt = {}
  /\ rbLog = << >>
  /\ rbFailed = {}
  /\ recorded = << >>
  /\ failedAt = {}
  /\ ledgerAtInt = << "none" >>
  /\ cleanupStarts = 0
  /\ reentered = FALSE
  /\ createdTag = NoTag
  /\ landedOps = {}
  /\ pcAtInt = "none"
  /\ checks = {}
  /\ previews = << >>

Init ==
  /\ pc = "init"
  /\ config = [bumpType |-> "", preId |-> "", stashChanges |-> FALSE]
  /\ pkgVersion \in StartVersions
  /\ history = << pkgVersion >>
  /\ tags \in StartTags
  /\ changes \in {"none", "worktree"}
  /\ userStash \in UserStashes
  /\ stash = userStash
  /\ ProcessInit

\* ------------------------------------------- handleExit / performCleanup
\* A process.exit that drops its argument.
ProcessExitZero(code) ==
  /\ exited' = TRUE
  /\ exitStatus' = 0

\* process.exit(code)
ProcessExit(code) ==
  /\ exited' = TRUE
  /\ exitStatus' = code

\* A replay that starts the inverse of a version entry with the tag deletion.
InverseOfTagFirst(item) == IF item.type = "stash" THEN "pop" ELSE "tagdel"

\* The inverse operation performCleanup starts for a ledger entry.
InverseOf(item) == IF item.type = "stash" THEN "pop" ELSE "reset"

\* The order in which performCleanup visits the ledger: cleanup.reverse().
ReplayOrder(arr) == Reverse(arr)

\* A handleExit that ends the process without replaying the ledger.
PerformCleanupSkipped(code, arr) ==
  /\ ProcessExit(code)
  /\ exitArg' = code
  /\ cleanup' = arr
  /\ UNCHANGED << replayArr, aliased, replayIdx, hpc, rbLog, cleanupStarts,
                  reentered >>

\* performCleanup up to its first await, entered with the ledger `arr`:
\* cleanup.reverse() reverses the array in place, the iterator takes its
\* first item and the inverse of that item is started.
PerformCleanup(code, arr) ==
  LET order == ReplayOrder(arr) IN
  /\ cleanup' = order
  /\ replayArr' = order
  /\ aliased' = TRUE
  /\ replayIdx' = 1
  /\ hpc' = InverseOf(order[1])
  /\ rbLog' = Append(rbLog, InverseOf(order[1]))
  /\ cleanupStarts' = cleanupStarts + 1
  /\ exitArg' = code
  /\ UNCHANGED << exited, exitStatus, reentered >>

\* handleExit without its isExiting latch: every call replays or exits.
HandleExitNoLatch(code, arr, rarr, cause) ==
  /\ isExiting' = TRUE
  /\ exitCause' = cause
  /\ IF Len(arr) > 0
     THEN PerformCleanup(code, arr)
     ELSE /\ ProcessExit(code)
          /\ exitArg' = code
          /\ cleanup' = arr
          /\ replayArr' = rarr
          /\ UNCHANGED << aliased, replayIdx, hpc, rbLog, cleanupStarts,
                          reentered >>

\* handleExit(code) called by `cause` when the ledger holds `arr` (and the
\* array of a running replay `rarr`): a one-shot latch; replay when the ledger is
\* not empty, then process.exit(code).
HandleExitOn(code, arr, rarr, cause) ==
  IF ~isExiting
  THEN /\ isExiting' = TRUE
       /\ exitCause' = cause
       /\ IF Len(arr) > 0
          THEN PerformCleanup(code, arr)
          ELSE /\ ProcessExit(code)
               /\ exitArg' = code
               /\ cleanup' = arr
               /\ replayArr' = rarr
               /\ UNCHANGED << aliased, replayIdx, hpc, rbLog, cleanupStarts,
                               reentered >>
  ELSE /\ cleanup' = arr
       /\ replayArr' = rarr
       /\ reentered' = TRUE
       /\ UNCHANGED << isExiting, replayIdx, hpc, exitArg, exitCause, exited,
                       exitStatus, rbLog, cleanupStarts, aliased >>

\* handleExit(code) in a turn that did not write the ledger.
HandleExit(code, cause) == HandleExitOn(code, cleanup, replayArr, cause)

\* A performCleanup that empties the ledger when its loop ends.
AfterReplayCleared(arr) == << >>

\* What performCleanup does with the array when its loop ends.
AfterReplay(arr) == arr

\* The loop of performCleanup moves to the next item of the array it
\* iterates (the iterator reads the live array) or, at its end, handleExit
\* resumes and calls process.exit(code).
NextItem ==
  IF replayIdx < Len(replayArr)
  THEN /\ replayIdx' = replayIdx + 1
       /\ hpc' = InverseOf(replayArr[replayIdx + 1])
       /\ rbLog' = Append(rbLog, InverseOf(replayArr[replayIdx + 1]))
       /\ UNCHANGED << exited, exitStatus, arrayVars >>
  ELSE /\ hpc' = "exit"
       /\ ProcessExit(exitArg)
       /\ replayArr' = AfterReplay(replayArr)
       /\ cleanup' = IF aliased THEN AfterReplay(replayArr) ELSE cleanup
       /\ UNCHANGED << replayIdx, rbLog, aliased >>

\* A loop without the try/catch around each item: the first failing inverse
\* ends the replay, and handleExit goes on to process.exit.
AbortReplay ==
  /\ hpc' = "exit"
  /\ ProcessExit(exitArg)
  /\ UNCHANGED << replayIdx, rbLog, arrayVars >>

\* A loop without the try/catch around each item whose rejection nobody
\* handles: handleExit never resumes, so process.exit is never called.
ReplayStalls ==
  /\ hpc' = "stalled"
  /\ UNCHANGED << replayIdx, rbLog, arrayVars, exited, exitStatus >>

\* What the loop does after the inverse of an item threw: the catch block
\* logs and the loop goes on.
AfterInverseFailed == NextItem

CleanupFrame ==
  UNCHANGED << mainVars, interrupted, isExiting, exitArg, exitCause,
               cleanupStarts, reentered, recorded, ledgerAtInt, createdTag,
               landedOps, userStash, pcAtInt, checks, previews >>

\* Where the user's changes are after a successful `git stash pop`.
AfterPop(c) == IF c = "stash" THEN "worktree" ELSE c

\* Where they are after a successful `git reset --hard HEAD~1`: the working
\* tree and the index are overwritten and the last commit leaves the branch.
AfterHardReset(c) ==
  IF c \in {"worktree", "index", "commit"} THEN "lost" ELSE c

\* await git.stash(['pop']) of performCleanup returns.
CleanupStashPopReturns(ok) ==
  /\ ~exited
  /\ hpc = "pop"
  /\ ok => stash > 0
  /\ IF ok
     THEN /\ stash' = stash - 1
          /\ changes' = AfterPop(changes)
          /\ NextItem
          /\ UNCHANGED rbFailed
     ELSE /\ rbFailed' = rbFailed \cup {"pop"}
          /\ AfterInverseFailed
          /\ UNCHANGED << stash, changes >>
  /\ UNCHANGED << pkgVersion, history, tags >>
  /\ CleanupFrame

\* await git.reset(['--hard', 'HEAD~1']) returns; on success the tag
\* deletion is started when the entry carries a tag.
CleanupResetReturns(ok) ==
  /\ ~exited
  /\ hpc = "reset"
  /\ ok => Len(history) > 1
  /\ IF ok
     THEN /\ history' = SubSeq(history, 1, Len(history) - 1)
          /\ pkgVersion' = history[Len(history) - 1]
          /\ changes' = AfterHardReset(changes)
          /\ IF replayArr[replayIdx].tag # NoTag
             THEN /\ hpc' = "tagdel"
                  /\ rbLog' = Append(rbLog, "tagdel")
                  /\ UNCHANGED << replayIdx, exited, exitStatus, arrayVars >>
             ELSE NextItem
          /\ UNCHANGED rbFailed
     ELSE /\ rbFailed' = rbFailed \cup {"reset"}
          /\ AfterInverseFailed
          /\ UNCHANGED << history, pkgVersion, changes >>
  /\ UNCHANGED << tags, stash >>
  /\ CleanupFrame

\* await git.tag(['--delete', item.data.tag]) returns.
CleanupTagDeleteReturns(ok) ==
  /\ ~exited
  /\ hpc = "tagdel"
  /\ ok => replayArr[replayIdx].tag \in tags
  /\ IF ok
     THEN /\ tags' = tags \ {replayArr[replayIdx].tag}
          /\ NextItem
          /\ UNCHANGED rbFailed
     ELSE /\ rbFailed' = rbFailed \cup {"tagdel"}
          /\ AfterInverseFailed
          /\ UNCHANGED tags
  /\ UNCHANGED << pkgVersion, history, stash, changes >>
  /\ CleanupFrame

\* ------------------------------------------------- process-level handlers
\* A SIGINT handler that only sets the flag and leaves the exit to main.
SIGINTFlagOnly ==
  /\ ~exited
  /\ pc # "init"
  /\ interrupted' = TRUE
  /\ ledgerAtInt' = IF ledgerAtInt = << "none" >>
                    THEN [i \in 1..Len(cleanup) |-> cleanup[i].type]
                    ELSE ledgerAtInt
  /\ pcAtInt' = IF pcAtInt = "none" THEN pc ELSE pcAtInt
  /\ UNCHANGED << exitVars, arrayVars, mainVars, repoVars, rbFailed,
                  recorded, checks, previews >>

\* process.on('SIGINT'): set the flag, then handleExit(0).
SIGINT ==
  /\ ~exited
  /\ pc # "init"
  /\ interrupted' = TRUE
  /\ ledgerAtInt' = IF ledgerAtInt = << "none" >>
                    THEN [i \in 1..Len(cleanup) |-> cleanup[i].type]
                    ELSE ledgerAtInt
  /\ pcAtInt' = IF pcAtInt = "none" THEN pc ELSE pcAtInt
  /\ HandleExit(0, "SIGINT")
  /\ UNCHANGED << mainVars, repoVars, rbFailed, recorded, checks,
                  previews >>

\* process.on('uncaughtException'): handleExit(1, error) unless the run is
\* already interrupted or exiting.
UncaughtException ==
  /\ ~exited
  /\ pc # "init"
  /\ IF ~interrupted /\ ~isExiting
     THEN HandleExit(1, "uncaughtException")
     ELSE UNCHANGED << exitVars, arrayVars >>
  /\ UNCHANGED << mainVars, repoVars, interrupted, ledgerAtInt, rbFailed,
                  recorded, pcAtInt, checks, previews >>

\* process.on('unhandledRejection'): the same reaction to a rejected
\* promise nobody awaits.
UnhandledRejection ==
  /\ ~exited
  /\ pc # "init"
  /\ IF ~interrupted /\ ~isExiting
     THEN HandleExit(1, "unhandledRejection")
     ELSE UNCHANGED << exitVars, arrayVars >>
  /\ UNCHANGED << mainVars, repoVars, interrupted, ledgerAtInt, rbFailed,
                  recorded, pcAtInt, checks, previews >>

\* main has returned, nothing is pending: the event loop drains and the
\* process ends with exit code 0.
NaturalExit ==
  /\ ~exited
  /\ pc = "done"
  /\ hpc = "idle"
  /\ ProcessExit(0)
  /\ UNCHANGED << mainVars, interrupted, isExiting, replayIdx, hpc, exitArg,
                  exitCause, rbLog, cleanupStarts, reentered, arrayVars,
                  repoVars, rbFailed,
                  recorded, ledgerAtInt, pcAtInt, checks, previews >>

\* ------------------------------------------------------------------ main
\* main starts the call `op` and suspends on it.
Goto(op) ==
  /\ pc' = op
  /\ mainLog' = IF op \in MutatingOps THEN Append(mainLog, op) ELSE mainLog
  /\ afterInt' = IF interrupted THEN afterInt \cup {op} ELSE afterInt

\* main returns.
Return ==
  /\ pc' = "done"
  /\ UNCHANGED << mainLog, afterInt >>

GotoOrReturn(n) == IF n = "done" THEN Return ELSE Goto(n)

\* Variables no turn of main writes.
MainFrame ==
  UNCHANGED << interrupted, ledgerAtInt, rbFailed, pcAtInt, checks,
               previews >>

\* The same for a turn that makes one of the checks.
CheckFrame ==
  UNCHANGED << interrupted, ledgerAtInt, rbFailed, pcAtInt, previews >>

\* A turn of main that does not reach handleExit.
NoHandleExit == UNCHANGED << exitVars, arrayVars >>

\* A catch block of main that reports the failure with exit code 0.
ExitFromMainZero(code) ==
  /\ HandleExit(0, "main")
  /\ pc' = IF ~isExiting /\ Len(cleanup) > 0 THEN "awaitExit" ELSE "done"
  /\ UNCHANGED << config, newTag, reported, mainLog, afterInt, recorded >>

\* `handleExit(code); return;` and `await handleExit(code, error); return;`:
\* when the latch is taken and the ledger is not empty main stays suspended
\* on the replay, which ends the process; otherwise main returns.
ExitFromMain(code) ==
  /\ HandleExit(code, "main")
  /\ pc' = IF ~isExiting /\ Len(cleanup) > 0 THEN "awaitExit" ELSE "done"
  /\ UNCHANGED << config, newTag, reported, mainLog, afterInt, recorded >>

\* A step that records its ledger entry before it awaits the call, so that
\* the entry is there when the call throws.
FailRecorded(at) ==
  LET item == IF at = "stashPush" THEN StashItem ELSE VersionItem(newTag) IN
  /\ failedAt' = failedAt \cup {at}
  /\ recorded' = Append(recorded, item.type)
  /\ HandleExitOn(1, Append(cleanup, item),
                  IF aliased THEN Append(replayArr, item) ELSE replayArr,
                  "main")
  /\ pc' = IF ~isExiting THEN "awaitExit" ELSE "done"
  /\ UNCHANGED << config, newTag, reported, mainLog, afterInt >>

\* The awaited call `at` threw: the enclosing catch block calls
\* handleExit(1, error) and returns.
Fail(at) ==
  /\ failedAt' = failedAt \cup {at}
  /\ ExitFromMain(1)

\* The statements from `if (interrupted) return` of line 323 on.
Line323 == IF interrupted THEN {"done"} ELSE {"revparseBranch"}

\* From line 316: the commit message is prompted for when args[1] is absent.
Line316 ==
  IF interrupted THEN {"done"} ELSE {"promptCommitMessage"} \cup Line323

\* From line 284: pre-release kinds look at the latest tag first.
Line284(bumpType) ==
  IF interrupted THEN {"done"}
  ELSE IF IsPreType(bumpType) THEN {"tags"} ELSE Line316

\* A run that stashes whatever the status check found.
Line392AlwaysStash(stashChanges) ==
  IF interrupted THEN "done" ELSE "stashPush"

\* From line 392: the stash step when config.stashChanges, else the bump
\* step.
Line392(stashChanges) ==
  IF interrupted THEN "done"
  ELSE IF stashChanges THEN "stashPush" ELSE "add"

\* From line 458: the push step.
Line458 == IF interrupted THEN "done" ELSE "revparsePush"

\* Lines 484-487: report success and clear the ledger unless interrupted.
Line484 ==
  /\ pc' = "done"
  /\ IF ~interrupted
     THEN /\ cleanup' = << >>
          /\ aliased' = FALSE
          /\ reported' = TRUE
     ELSE UNCHANGED << cleanup, aliased, reported >>
  /\ UNCHANGED << replayArr, exitVars, mainLog, afterInt, config, newTag,
                  failedAt, recorded >>

\* A replay that iterates a copy of the ledger taken when it started: an
\* entry pushed later is not visited.
CleanupPushSnapshot(item) ==
  /\ cleanup' = Append(cleanup, item)
  /\ recorded' = Append(recorded, item.type)
  /\ UNCHANGED << replayArr, aliased >>

\* cleanup.push(item): the array the variable is bound to grows; the
\* iterator of a running replay sees the new entry when it is that array.
CleanupPush(item) ==
  /\ cleanup' = Append(cleanup, item)
  /\ replayArr' = IF aliased THEN Append(replayArr, item) ELSE replayArr
  /\ recorded' = Append(recorded, item.type)
  /\ UNCHANGED aliased

\* Lines 211-241: argument handling up to `await checkForUpdates()`.
Start ==
  /\ pc = "init"
  /\ ~exited
  /\ \E help \in BOOLEAN :
       IF help
       THEN ExitFromMain(0) /\ UNCHANGED failedAt
       ELSE /\ Goto("checkForUpdates")
            /\ NoHandleExit
            /\ UNCHANGED << config, newTag, reported, failedAt, recorded >>
  /\ UNCHANGED repoVars
  /\ MainFrame

\* checkForUpdates returns (or ends the process after an automatic update);
\* then --setup-workflows and the package.json check, up to
\* `await git.checkIsRepo()`.
CheckForUpdatesReturns(outcome) ==
  /\ pc = "checkForUpdates"
  /\ ~exited
  /\ CASE outcome = "updated" ->
            /\ ProcessExit(0)
            /\ UNCHANGED << mainVars, isExiting, replayIdx, hpc, exitArg,
                            exitCause, rbLog, cleanupStarts, reentered,
                            arrayVars, recorded >>
       [] outcome = "updateFailed" ->
            /\ ProcessExit(1)
            /\ UNCHANGED << mainVars, isExiting, replayIdx, hpc, exitArg,
                            exitCause, rbLog, cleanupStarts, reentered,
                            arrayVars, recorded >>
       [] outcome = "setupWorkflows" -> ExitFromMain(0) /\ UNCHANGED failedAt
       [] outcome = "setupWorkflowsThrows" -> Fail("setupGithubWorkflows")
       [] outcome = "noPackageJson" -> ExitFromMain(1) /\ UNCHANGED failedAt
       [] outcome = "continue" ->
            /\ Goto("checkIsRepo")
            /\ NoHandleExit
            /\ UNCHANGED << config, newTag, reported, failedAt, recorded >>
  /\ checks' = IF outcome = "noPackageJson"
                THEN checks \cup {"noPackageJson"} ELSE checks
  /\ UNCHANGED repoVars
  /\ CheckFrame

UpdateOutcomes ==
  {"updated", "updateFailed", "setupWorkflows", "setupWorkflowsThrows",
   "noPackageJson", "continue"}

\* A working directory check that ignores the answer of git.
NotARepoIgnored(r) == FALSE

\* if (!isRepo): the directory is not a git repository.
NotARepo(r) == r = "no"

\* git.checkIsRepo() returns; then the bump type of args[0] is validated.
\* arg = "" stands for a missing or invalid args[0].
CheckIsRepoReturns(r, arg) ==
  /\ pc = "checkIsRepo"
  /\ ~exited
  /\ CASE r = "throw" -> Fail("checkIsRepo")
       [] NotARepo(r) -> ExitFromMain(1) /\ UNCHANGED failedAt
       [] OTHER ->
            /\ IF arg = ""
               THEN /\ IF interrupted THEN Return ELSE Goto("promptBumpType")
                    /\ UNCHANGED config
               ELSE /\ config' = [config EXCEPT !.bumpType = arg]
                    /\ \E n \in Line284(arg) : GotoOrReturn(n)
            /\ NoHandleExit
            /\ UNCHANGED << newTag, reported, failedAt, recorded >>
  /\ checks' = IF r = "no" THEN checks \cup {"notRepo"} ELSE checks
  /\ UNCHANGED repoVars
  /\ CheckFrame

\* promptBumpType() returns the chosen kind ('' once interrupted).
PromptBumpTypeReturns(ok, choice) ==
  /\ pc = "promptBumpType"
  /\ ~exited
  /\ IF ok
     THEN LET bt == IF interrupted THEN "" ELSE choice IN
          /\ config' = [config EXCEPT !.bumpType = bt]
          /\ \E n \in Line284(bt) : GotoOrReturn(n)
          /\ NoHandleExit
          /\ UNCHANGED << newTag, reported, failedAt, recorded >>
     ELSE Fail("promptBumpType")
  /\ UNCHANGED repoVars
  /\ MainFrame

\* git.tags() returns; a failure is logged and ignored (lines 289-310).
TagsReturns(ok) ==
  /\ pc = "tags"
  /\ ~exited
  /\ IF interrupted THEN Return ELSE Goto("promptIfPreId")
  /\ NoHandleExit
  /\ UNCHANGED << config, newTag, reported, failedAt, recorded >>
  /\ UNCHANGED repoVars
  /\ MainFrame

\* promptIfPreId() returns.
PromptIfPreIdReturns(ok, answer) ==
  /\ pc = "promptIfPreId"
  /\ ~exited
  /\ IF ok
     THEN /\ IF answer /\ ~interrupted
             THEN Goto("promptPreId")
             ELSE \E n \in Line316 : GotoOrReturn(n)
          /\ NoHandleExit
          /\ UNCHANGED << config, newTag, reported, failedAt, recorded >>
     ELSE Fail("promptIfPreId")
  /\ UNCHANGED repoVars
  /\ MainFrame

\* promptPreId(existingPreId) returns the identifier the user typed.
PromptPreIdReturns(ok, id) ==
  /\ pc = "promptPreId"
  /\ ~exited
  /\ IF ok
     THEN /\ config' = [config EXCEPT !.preId = IF interrupted THEN "" ELSE id]
          /\ \E n \in Line316 : GotoOrReturn(n)
          /\ NoHandleExit
          /\ UNCHANGED << newTag, reported, failedAt, recorded >>
     ELSE Fail("promptPreId")
  /\ UNCHANGED repoVars
  /\ MainFrame

\* promptCommitMessage() returns.
PromptCommitMessageReturns(ok) ==
  /\ pc = "promptCommitMessage"
  /\ ~exited
  /\ IF ok
     THEN /\ \E n \in Line323 : GotoOrReturn(n)
          /\ NoHandleExit
          /\ UNCHANGED << config, newTag, reported, failedAt, recorded >>
     ELSE Fail("promptCommitMessage")
  /\ UNCHANGED repoVars
  /\ MainFrame

\* A branch check that only warns.
BranchRefusedNever(isAllowedBranch, forceBranch) == FALSE

\* if (!isAllowedBranch) { if (!forceBranch) ... }: the run is refused on
\* this branch.
BranchRefused(isAllowedBranch, forceBranch) ==
  ~isAllowedBranch /\ ~forceBranch

\* git.revparse(['--abbrev-ref', 'HEAD']) returns; the branch check.
RevparseBranchReturns(ok, isAllowedBranch, forceBranch) ==
  /\ pc = "revparseBranch"
  /\ ~exited
  /\ IF ~ok THEN Fail("revparseBranch")
     ELSE IF BranchRefused(isAllowedBranch, forceBranch)
     THEN ExitFromMain(1) /\ UNCHANGED failedAt
     ELSE /\ IF interrupted THEN Return ELSE Goto("status")
          /\ NoHandleExit
          /\ UNCHANGED << config, newTag, reported, failedAt, recorded >>
  /\ checks' = IF ~ok THEN checks
                ELSE checks \cup {IF isAllowedBranch THEN "branchAllowed"
                                  ELSE IF forceBranch THEN "branchForced"
                                  ELSE "branchRefused"}
  /\ UNCHANGED repoVars
  /\ CheckFrame

\* git.status() returns; dirty = gitStatus.files.length > 0.
StatusReturns(ok, dirty) ==
  /\ pc = "status"
  /\ ~exited
  /\ ok => (dirty <=> changes = "worktree")
  /\ IF ~ok THEN Fail("status")
     ELSE /\ IF dirty /\ ~interrupted
             THEN Goto("promptCommitChanges")
             ELSE GotoOrReturn(Line392(config.stashChanges))
          /\ NoHandleExit
          /\ UNCHANGED << config, newTag, reported, failedAt, recorded >>
  /\ UNCHANGED repoVars
  /\ MainFrame

\* promptCommitChanges() returns.
PromptCommitChangesReturns(ok, commit) ==
  /\ pc = "promptCommitChanges"
  /\ ~exited
  /\ IF ~ok THEN Fail("promptCommitChanges")
     ELSE /\ IF ~commit /\ ~interrupted
             THEN Goto("promptContinueEvenThoChanges")
             ELSE GotoOrReturn(Line392(config.stashChanges))
          /\ NoHandleExit
          /\ UNCHANGED << config, newTag, reported, failedAt, recorded >>
  /\ UNCHANGED repoVars
  /\ MainFrame

\* A status check that goes on when the user declined the stash as well.
DeclinedIgnored(stashChanges) == FALSE

\* if (!config.stashChanges): the user declined the stash as well.
Declined(stashChanges) == ~stashChanges

\* promptContinueEvenThoChanges() returns: stash, or abort.
PromptContinueEvenThoChangesReturns(ok, stillContinue) ==
  /\ pc = "promptContinueEvenThoChanges"
  /\ ~exited
  /\ IF ~ok THEN Fail("promptContinueEvenThoChanges")
     ELSE LET stashChanges == IF interrupted THEN FALSE ELSE stillContinue IN
          IF Declined(stashChanges)
          THEN /\ HandleExit(1, "main")
               /\ pc' = IF ~isExiting /\ Len(cleanup) > 0
                        THEN "awaitExit" ELSE "done"
               /\ config' = [config EXCEPT !.stashChanges = FALSE]
               /\ UNCHANGED << newTag, reported, mainLog, afterInt, recorded,
                               failedAt >>
          ELSE /\ config' = [config EXCEPT !.stashChanges = stashChanges]
               /\ GotoOrReturn(Line392(stashChanges))
               /\ NoHandleExit
               /\ UNCHANGED << newTag, reported, failedAt, recorded >>
  /\ checks' = IF ok /\ ~interrupted /\ ~stillContinue
                THEN checks \cup {"declined"} ELSE checks
  /\ UNCHANGED repoVars
  /\ CheckFrame

\* The tag recorded in the ledger entry of the version commit: the trimmed
\* stdout of the preview call.
RecordedTag(previewTag) == previewTag

\* The `git stash push` process main awaits saves the changes on the stash
\* stack; the promise main awaits resolves in a later turn.
StashPushLands ==
  /\ pc = "stashPush"
  /\ ~exited
  /\ "stashPush" \notin landedOps
  /\ stash' = stash + 1
  /\ changes' = IF changes = "worktree" THEN "stash" ELSE changes
  /\ landedOps' = landedOps \cup {"stashPush"}
  /\ UNCHANGED userStash
  /\ UNCHANGED << pkgVersion, history, tags, createdTag >>
  /\ UNCHANGED << mainVars, exitVars, arrayVars, recorded >>
  /\ MainFrame

\* git.stash(['push', ...]) returns (it succeeds when the stash was saved):
\* record the stash, then enter the bump step (which stages everything).
StashPushReturns(ok) ==
  /\ pc = "stashPush"
  /\ ~exited
  /\ ok <=> "stashPush" \in landedOps
  /\ IF ok
     THEN /\ IF ~interrupted
             THEN /\ Goto("add")
                  /\ CleanupPush(StashItem)
                  /\ UNCHANGED << exitVars, config, newTag, reported, failedAt >>
             ELSE \* line 435: handleExit(1) on the ledger that now holds
                  \* the stash entry
                  /\ recorded' = Append(recorded, "stash")
                  /\ HandleExitOn(1, Append(cleanup, StashItem),
                                  IF aliased THEN Append(replayArr, StashItem)
                                  ELSE replayArr, "main")
                  /\ pc' = IF ~isExiting THEN "awaitExit" ELSE "done"
                  /\ UNCHANGED << config, newTag, reported, mainLog, afterInt,
                                  failedAt >>
     ELSE Fail("stashPush")
  /\ UNCHANGED repoVars
  /\ MainFrame

\* git.add('.') returns; the preview `npm version --no-git-tag-version
\* --no-commit-hooks <kind>` is started.
AddReturns(ok) ==
  /\ pc = "add"
  /\ ~exited
  /\ IF ok
     THEN /\ Goto("npmPreview")
          /\ NoHandleExit
          /\ UNCHANGED << config, newTag, reported, failedAt, recorded >>
     ELSE Fail("add")
  /\ changes' = IF ok /\ changes = "worktree" THEN "index" ELSE changes
  /\ UNCHANGED << pkgVersion, history, tags, stash, createdTag, landedOps,
                  userStash >>
  /\ MainFrame

\* The preview returns: package.json holds the next version and stdout is
\* its tag; `git checkout package.json` is started.
NpmPreviewReturns(ok) ==
  /\ pc = "npmPreview"
  /\ ~exited
  /\ IF ok
     THEN LET next == PreviewOf(pkgVersion, config.bumpType) IN
          /\ pkgVersion' = next
          /\ newTag' = TagOf(next)
          /\ previews' = Append(previews, TagOf(next))
          /\ Goto("checkoutPkg")
          /\ NoHandleExit
          /\ UNCHANGED << config, reported, failedAt, recorded >>
     ELSE Fail("npmPreview") /\ UNCHANGED << pkgVersion, previews >>
  /\ UNCHANGED << history, tags, stash, createdTag, changes, landedOps,
                  userStash >>
  /\ UNCHANGED << interrupted, ledgerAtInt, rbFailed, pcAtInt, checks >>

\* `git checkout package.json` returns: the manifest is back at the staged
\* version; the real `npm version` (with --preid when config.preId) starts.
CheckoutPkgReturns(ok) ==
  /\ pc = "checkoutPkg"
  /\ ~exited
  /\ IF ok
     THEN /\ pkgVersion' = history[Len(history)]
          /\ Goto("npmVersion")
          /\ NoHandleExit
          /\ UNCHANGED << config, newTag, reported, failedAt, recorded >>
     ELSE Fail("checkoutPkg") /\ UNCHANGED pkgVersion
  /\ UNCHANGED << history, tags, stash, createdTag, changes, landedOps,
                  userStash >>
  /\ MainFrame

\* The real `npm version` process (with --preid when config.preId) mutates
\* the manifest, commits the index and creates the tag, which must not exist
\* yet; the promise main awaits resolves in a later turn.
NpmVersionLands ==
  /\ pc = "npmVersion"
  /\ ~exited
  /\ "npmVersion" \notin landedOps
  /\ LET next == NpmVersionInc(pkgVersion, config.bumpType, config.preId) IN
     /\ TagOf(next) \notin tags
     /\ pkgVersion' = next
     /\ history' = Append(history, next)
     /\ tags' = tags \cup {TagOf(next)}
     /\ createdTag' = TagOf(next)
  /\ changes' = IF changes = "index" THEN "commit" ELSE changes
  /\ landedOps' = landedOps \cup {"npmVersion"}
  /\ UNCHANGED userStash
  /\ previews' = << >>
  /\ UNCHANGED stash
  /\ UNCHANGED << mainVars, exitVars, arrayVars, recorded >>
  /\ UNCHANGED << interrupted, ledgerAtInt, rbFailed, pcAtInt, checks >>

\* The real `npm version` returns (it succeeds when the commit and the tag
\* were created): the version entry is recorded, then the unstash step
\* starts when config.stashChanges, else line 458.
NpmVersionReturns(ok) ==
  /\ pc = "npmVersion"
  /\ ~exited
  /\ ok <=> "npmVersion" \in landedOps
  /\ IF ok
     THEN /\ CleanupPush(VersionItem(RecordedTag(newTag)))
          /\ IF config.stashChanges
             THEN Goto("stashPop")
             ELSE GotoOrReturn(Line458)
          /\ UNCHANGED << exitVars, config, newTag, reported, failedAt >>
     ELSE Fail("npmVersion")
  /\ UNCHANGED repoVars
  /\ MainFrame

\* An unstash step that leaves the ledger as it is.
WithoutStashKept(arr) == arr

\* The ledger after the stash was popped by main: cleanup.filter(...)
\* builds a new array.
WithoutStash(arr) == SelectSeq(arr, LAMBDA item : item.type # "stash")

\* git.stash(['pop']) of the unstash step returns.
StashPopReturns(ok) ==
  /\ pc = "stashPop"
  /\ ~exited
  /\ ok => stash > 0
  /\ IF ok
     THEN /\ stash' = stash - 1
          /\ changes' = AfterPop(changes)
          /\ cleanup' = WithoutStash(cleanup)
          /\ aliased' = FALSE
          /\ GotoOrReturn(Line458)
          /\ UNCHANGED << replayArr, exitVars, config, newTag, reported,
                          failedAt, recorded >>
     ELSE Fail("stashPop") /\ UNCHANGED << stash, changes >>
  /\ UNCHANGED << pkgVersion, history, tags, createdTag, landedOps,
                  userStash >>
  /\ MainFrame

\* git.revparse of the push step returns.
RevparsePushReturns(ok) ==
  /\ pc = "revparsePush"
  /\ ~exited
  /\ IF ok
     THEN /\ Goto("remote")
          /\ NoHandleExit
          /\ UNCHANGED << config, newTag, reported, failedAt, recorded >>
     ELSE Fail("revparsePush")
  /\ UNCHANGED repoVars
  /\ MainFrame

\* A push step that treats an empty remote as a failure.
AfterNoRemoteFails == Fail("remote")

\* if (!remote): warn, skip the push and fall through to line 484.
AfterNoRemote == Line484

\* git.remote(['get-url', 'origin']) returns; hasUrl = the output is not
\* empty.  promptPushChanges answers false at once when interrupted.
RemoteReturns(ok, hasUrl) ==
  /\ pc = "remote"
  /\ ~exited
  /\ IF ~ok THEN Fail("remote")
     ELSE IF hasUrl /\ ~interrupted
     THEN /\ Goto("promptPushChanges")
          /\ NoHandleExit
          /\ UNCHANGED << config, newTag, reported, failedAt, recorded >>
     ELSE IF ~hasUrl THEN AfterNoRemote
     ELSE Line484
  /\ checks' = IF ok /\ ~hasUrl
                THEN checks \cup (IF isExiting THEN {"noRemote"}
                                  ELSE {"noRemote", "noRemoteQuiet"})
                ELSE checks
  /\ UNCHANGED repoVars
  /\ CheckFrame

\* A push step that pushes whatever the user answered.
PushWantedAlways(answer) == TRUE

\* if (push && !interrupted)
PushWanted(answer) == answer /\ ~interrupted

\* promptPushChanges() returns.
PromptPushChangesReturns(ok, answer) ==
  /\ pc = "promptPushChanges"
  /\ ~exited
  /\ IF ~ok THEN Fail("promptPushChanges")
     ELSE IF PushWanted(answer)
     THEN /\ Goto("push")
          /\ NoHandleExit
          /\ UNCHANGED << config, newTag, reported, failedAt, recorded >>
     ELSE Line484
  /\ checks' = IF ok /\ answer /\ ~interrupted
                THEN checks \cup {"pushConfirmed"} ELSE checks
  /\ UNCHANGED repoVars
  /\ CheckFrame

\* git.push(remote, currentBranch) returns.
PushReturns(ok) ==
  /\ pc = "push"
  /\ ~exited
  /\ IF ok
     THEN /\ Goto("pushTags")
          /\ NoHandleExit
          /\ UNCHANGED << config, newTag, reported, failedAt, recorded >>
     ELSE Fail("push")
  /\ UNCHANGED repoVars
  /\ MainFrame

\* git.pushTags(remote) returns.
PushTagsReturns(ok) ==
  /\ pc = "pushTags"
  /\ ~exited
  /\ IF ok
     THEN /\ Goto("fetch")
          /\ NoHandleExit
          /\ UNCHANGED << config, newTag, reported, failedAt, recorded >>
     ELSE Fail("pushTags")
  /\ UNCHANGED repoVars
  /\ MainFrame

\* git.fetch() returns.
FetchReturns(ok) ==
  /\ pc = "fetch"
  /\ ~exited
  /\ IF ok THEN Line484 ELSE Fail("fetch")
  /\ UNCHANGED repoVars
  /\ MainFrame

\* ---------------------------------------------------------- specification
Next ==
  \/ Start
  \/ \E o \in UpdateOutcomes : CheckForUpdatesReturns(o)
  \/ \E r \in {"yes", "no", "throw"}, a \in validBumpTypes \cup {""} :
       CheckIsRepoReturns(r, a)
  \/ \E ok \in BOOLEAN, c \in validBumpTypes : PromptBumpTypeReturns(ok, c)
  \/ \E ok \in BOOLEAN : TagsReturns(ok)
  \/ \E ok \in BOOLEAN, a \in BOOLEAN : PromptIfPreIdReturns(ok, a)
  \/ \E ok \in BOOLEAN, id \in PreIds : PromptPreIdReturns(ok, id)
  \/ \E ok \in BOOLEAN : PromptCommitMessageReturns(ok)
  \/ \E ok \in BOOLEAN, al \in BOOLEAN, f \in BOOLEAN :
       RevparseBranchReturns(ok, al, f)
  \/ \E ok \in BOOLEAN, d \in BOOLEAN : StatusReturns(ok, d)
  \/ \E ok \in BOOLEAN, c \in BOOLEAN : PromptCommitChangesReturns(ok, c)
  \/ \E ok \in BOOLEAN, c \in BOOLEAN :
       PromptContinueEvenThoChangesReturns(ok, c)
  \/ StashPushLands
  \/ \E ok \in BOOLEAN : StashPushReturns(ok)
  \/ \E ok \in BOOLEAN : AddReturns(ok)
  \/ \E ok \in BOOLEAN : NpmPreviewReturns(ok)
  \/ \E ok \in BOOLEAN : CheckoutPkgReturns(ok)
  \/ NpmVersionLands
  \/ \E ok \in BOOLEAN : NpmVersionReturns(ok)
  \/ \E ok \in BOOLEAN : StashPopReturns(ok)
  \/ \E ok \in BOOLEAN : RevparsePushReturns(ok)
  \/ \E ok \in BOOLEAN, u \in BOOLEAN : RemoteReturns(ok, u)
  \/ \E ok \in BOOLEAN, a \in BOOLEAN : PromptPushChangesReturns(ok, a)
  \/ \E ok \in BOOLEAN : PushReturns(ok)
  \/ \E ok \in BOOLEAN : PushTagsReturns(ok)
  \/ \E ok \in BOOLEAN : FetchReturns(ok)
  \/ \E ok \in BOOLEAN : CleanupStashPopReturns(ok)
  \/ \E ok \in BOOLEAN : CleanupResetReturns(ok)
  \/ \E ok \in BOOLEAN : CleanupTagDeleteReturns(ok)
  \/ SIGINT
  \/ UncaughtException
  \/ UnhandledRejection
  \/ NaturalExit

Spec == Init /\ [][Next]_vars

\* ------------------------------------------- the version calls on their own
\* The three calls of the bump step that read or write the manifest version
\* (lines 426, 428, 430), over repeated runs of the tool in one repository
\* with the same arguments: a run whose bump step ends early leaves the
\* manifest to the next run.
MutatorPres ==
  {<< >>, << Num(0) >>, << Str("beta") >>, << Str("beta"), Num(MaxPreNum) >>}

\* Manifest versions the first run can start from.
MutatorVersions ==
  {Ver(1, mi, pa, pre) : mi \in {0, 2}, pa \in {0, 3}, pre \in MutatorPres}

\* Pre-release identifiers the user can type ("" = none).
MutatorPreIds == {"", "alpha", "beta"}

MutatorInit ==
  /\ pc = "npmPreview"
  /\ config \in [bumpType : validBumpTypes, preId : MutatorPreIds,
                  stashChanges : {FALSE}]
  /\ pkgVersion \in MutatorVersions
  /\ history = << pkgVersion >>
  /\ tags = {}
  /\ changes = "none"
  /\ userStash = 0
  /\ stash = 0
  /\ ProcessInit

\* What the version calls leave alone.
MutatorFrame ==
  UNCHANGED << config, interrupted, isExiting, cleanup, replayArr, aliased,
               replayIdx, hpc, exitArg, exitCause, exited, exitStatus,
               reported, stash, mainLog, afterInt, rbLog, rbFailed, recorded,
               failedAt, ledgerAtInt, cleanupStarts, reentered, changes,
               landedOps, userStash, pcAtInt, checks >>

\* Line 426: the preview writes the next version to package.json and prints
\* its tag.
RunPreview ==
  /\ pc = "npmPreview"
  /\ Len(previews) < MaxPreviews
  /\ LET next == PreviewOf(pkgVersion, config.bumpType) IN
     /\ pkgVersion' = next
     /\ newTag' = TagOf(next)
     /\ previews' = Append(previews, TagOf(next))
  /\ pc' = "checkoutPkg"
  /\ UNCHANGED << history, tags, createdTag >>
  /\ MutatorFrame

\* Line 428: `git checkout package.json` restores the manifest; when it
\* fails (or the process ends before it) the run is over and the next run
\* starts from the manifest as it is.
RunDiscard(ok) ==
  /\ pc = "checkoutPkg"
  /\ IF ok
     THEN pkgVersion' = history[Len(history)] /\ pc' = "npmVersion"
     ELSE pc' = "npmPreview" /\ UNCHANGED pkgVersion
  /\ UNCHANGED << history, tags, createdTag, newTag, previews >>
  /\ MutatorFrame

\* Line 430: the real `npm version` (with --preid when config.preId) writes
\* the manifest, commits and tags; when it fails nothing is changed.  The
\* run is over either way.
RunApply(ok) ==
  /\ pc = "npmVersion"
  /\ LET next == NpmVersionInc(pkgVersion, config.bumpType, config.preId) IN
     IF ok
     THEN /\ Len(history) <= MaxApplies
          /\ TagOf(next) \notin tags
          /\ pkgVersion' = next
          /\ history' = Append(history, next)
          /\ tags' = tags \cup {TagOf(next)}
          /\ createdTag' = TagOf(next)
          /\ previews' = << >>
     ELSE UNCHANGED << pkgVersion, history, tags, createdTag, previews >>
  /\ pc' = "npmPreview"
  /\ UNCHANGED newTag
  /\ MutatorFrame

MutatorNext ==
  \/ RunPreview
  \/ \E ok \in BOOLEAN : RunDiscard(ok)
  \/ \E ok \in BOOLEAN : RunApply(ok)

MutatorSpec == MutatorInit /\ [][MutatorNext]_vars

\* ------------------------------------------------ runs whose calls return
\* The call or prompt main awaits returns (successfully or with an error) and
\* main runs to its next await, to its return or to a handleExit.
MainStep ==
  \/ Start
  \/ \E o \in UpdateOutcomes : CheckForUpdatesReturns(o)
  \/ \E r \in {"yes", "no", "throw"}, a \in validBumpTypes \cup {""} :
       CheckIsRepoReturns(r, a)
  \/ \E ok \in BOOLEAN, c \in validBumpTypes : PromptBumpTypeReturns(ok, c)
  \/ \E ok \in BOOLEAN : TagsReturns(ok)
  \/ \E ok \in BOOLEAN, a \in BOOLEAN : PromptIfPreIdReturns(ok, a)
  \/ \E ok \in BOOLEAN, id \in PreIds : PromptPreIdReturns(ok, id)
  \/ \E ok \in BOOLEAN : PromptCommitMessageReturns(ok)
  \/ \E ok \in BOOLEAN, al \in BOOLEAN, f \in BOOLEAN :
       RevparseBranchReturns(ok, al, f)
  \/ \E ok \in BOOLEAN, d \in BOOLEAN : StatusReturns(ok, d)
  \/ \E ok \in BOOLEAN, c \in BOOLEAN : PromptCommitChangesReturns(ok, c)
  \/ \E ok \in BOOLEAN, c \in BOOLEAN :
       PromptContinueEvenThoChangesReturns(ok, c)
  \/ \E ok \in BOOLEAN : StashPushReturns(ok)
  \/ \E ok \in BOOLEAN : AddReturns(ok)
  \/ \E ok \in BOOLEAN : NpmPreviewReturns(ok)
  \/ \E ok \in BOOLEAN : CheckoutPkgReturns(ok)
  \/ \E ok \in BOOLEAN : NpmVersionReturns(ok)
  \/ \E ok \in BOOLEAN : StashPopReturns(ok)
  \/ \E ok \in BOOLEAN : RevparsePushReturns(ok)
  \/ \E ok \in BOOLEAN, u \in BOOLEAN : RemoteReturns(ok, u)
  \/ \E ok \in BOOLEAN, a \in BOOLEAN : PromptPushChangesReturns(ok, a)
  \/ \E ok \in BOOLEAN : PushReturns(ok)
  \/ \E ok \in BOOLEAN : PushTagsReturns(ok)
  \/ \E ok \in BOOLEAN : FetchReturns(ok)

\* The git call performCleanup awaits returns (successfully or with an
\* error) and the loop goes on, up to process.exit at the end of handleExit.
RollbackStep ==
  \/ \E ok \in BOOLEAN : CleanupStashPopReturns(ok)
  \/ \E ok \in BOOLEAN : CleanupResetReturns(ok)
  \/ \E ok \in BOOLEAN : CleanupTagDeleteReturns(ok)

\* Every awaited call and prompt eventually returns, and Node ends a process
\* that has nothing left to run. Signals and uncaught errors are not forced.
Fairness ==
  /\ WF_vars(MainStep)
  /\ WF_vars(RollbackStep)
  /\ WF_vars(NaturalExit)

\* The runs checked for termination start from one manifest version and an
\* empty tag set: no branch of main, handleExit or performCleanup reads the
\* version number or the tags, they only decide which git calls succeed, and
\* every call here may fail or succeed anyway.
LiveInit ==
  /\ pc = "init"
  /\ config = [bumpType |-> "", preId |-> "", stashChanges |-> FALSE]
  /\ pkgVersion = Ver(1, 2, 3, << >>)
  /\ history = << pkgVersion >>
  /\ tags = {}
  /\ changes \in {"none", "worktree"}
  /\ userStash \in UserStashes
  /\ stash = userStash
  /\ ProcessInit

LiveSpec == LiveInit /\ [][Next]_vars /\ Fairness

\* ------------------------------------------------------------ properties
Range(seq) == {seq[i] : i \in 1..Len(seq)}

\* Calls of the Pushing step (lines 460-482).
PushStepOps == {"revparsePush", "remote", "push", "pushTags", "fetch"}

\* Entry types whose inverse the replay has started, in replay order.
ReplayedTypes ==
  LET started == SelectSeq(rbLog, LAMBDA op : op # "tagdel") IN
  [i \in 1..Len(started) |-> IF started[i] = "pop" THEN "stash" ELSE "version"]

\* Position of an entry type in the insertion order of the ledger.
InsertedAt(type) == CHOOSE i \in 1..Len(recorded) : recorded[i] = type

\* The bump commit and the tag created by the real `npm version` exist.
BumpStands == Len(history) = 2 /\ createdTag \in tags

\* C1: when a call of the Pushing step fails in a run that no signal and no
\* uncaught error disturbed, the process ends with exit code 0, no inverse
\* operation was invoked and the bump commit and its tag still exist.
C1_PushFailureKeepsBump ==
  (exited /\ failedAt \cap PushStepOps # {} /\ exitCause \in {"none", "main"})
    => (exitStatus = 0 /\ rbLog = << >> /\ BumpStands)

\* C2: the replay starts the inverses in exactly reverse insertion order,
\* entries recorded during the replay included.
C2_ReverseInsertionOrder ==
  \A i, j \in 1..Len(ReplayedTypes) :
    i < j => InsertedAt(ReplayedTypes[i]) > InsertedAt(ReplayedTypes[j])

FirstInverseFailed ==
  /\ Len(replayArr) >= 1
  /\ \/ InverseOf(replayArr[1]) \in rbFailed
     \/ replayArr[1].type = "version" /\ "tagdel" \in rbFailed

\* C4: with two entries in the replayed ledger, a failure of the first
\* inverse is swallowed: the inverse of the second entry is started in the
\* same turn, and the process ends only at the end of the replay, with the
\* code passed to handleExit.
C4_InverseFailureSwallowed ==
  (Len(replayArr) = 2 /\ FirstInverseFailed)
    => /\ replayIdx = 2
       /\ Len(ReplayedTypes) = 2
       /\ ReplayedTypes[2] = replayArr[2].type
       /\ exited => (hpc = "exit" /\ exitStatus = exitArg)

C4_Witness ==
  /\ exited
  /\ hpc = "exit"
  /\ Len(replayArr) = 2
  /\ FirstInverseFailed
  /\ exitStatus = 1

\* C5: the tag stored in the version entry of the ledger is the tag the
\* real `npm version` created.
C5_RecordedTagIsCreatedTag ==
  \A i \in 1..Len(cleanup) :
    cleanup[i].type = "version" => cleanup[i].tag = createdTag

\* Number of times the inverse operation `op` was started by the replay.
TimesStarted(op) == Cardinality({i \in 1..Len(rbLog) : rbLog[i] = op})

\* C6: performCleanup is entered at most once in a run and starts every
\* inverse operation at most once, however many signals, uncaught errors
\* and failures of main call handleExit again.
C6_SingleReplay ==
  /\ cleanupStarts <= 1
  /\ \A op \in InverseOps : TimesStarted(op) <= 1

C6_Witness ==
  /\ reentered
  /\ interrupted
  /\ cleanupStarts = 1
  /\ failedAt # {}
  /\ Len(rbLog) >= 2

\* C7: main starts no external operation once the interrupt flag is set.
C7_NoNewStepAfterInterrupt == afterInt \cap ExternalOps = {}

\* C8: a call of main and an inverse call of the rollback are never
\* outstanding at the same time.
C8_OneCallInFlight == ~(pc \in ExternalOps /\ hpc \in InverseOps)

\* C9: when the first interrupt finds only the stash entry in the ledger,
\* the run never starts a hard reset or a tag deletion and never records a
\* version entry.
C9_InterruptAfterStashPopsOnly ==
  (ledgerAtInt = << "stash" >>)
    => /\ "reset" \notin Range(rbLog)
       /\ "tagdel" \notin Range(rbLog)
       /\ "version" \notin Range(recorded)

\* C10: when the stash pop of the unstash step fails and that failure
\* starts the rollback, the rollback does not start a stash pop.
C10_FailedUnstashLeavesStash ==
  ("stashPop" \in failedAt /\ exitCause = "main") => "pop" \notin Range(rbLog)


\* Calls of the Bumping step (lines 418-442).
BumpStepOps == {"add", "npmPreview", "checkoutPkg", "npmVersion"}

\* A call of the Bumping step failed in a run that had recorded the stash.
BumpFailedAfterStash ==
  /\ failedAt \cap BumpStepOps # {}
  /\ "stash" \in Range(recorded)

\* C11: when a call of the Bumping step fails (a tag collision included)
\* after the stash was recorded, no version entry is ever recorded, the
\* rollback starts the stash pop exactly once and starts no hard reset and
\* no tag deletion, and, in a run that a user interrupt did not end, the
\* process exits with code 1.
C11_BumpFailureAfterStash ==
  BumpFailedAfterStash =>
    /\ "version" \notin Range(recorded)
    /\ isExiting
    /\ rbLog = << "pop" >>
    /\ (exited /\ exitCause # "SIGINT") => exitStatus = 1

\* The tag existed already, the real `npm version` failed, the stash pop of
\* the rollback returned and the process has ended.
C11_Witness ==
  /\ BumpFailedAfterStash
  /\ "npmVersion" \in failedAt
  /\ TagOf(NpmVersionInc(pkgVersion, config.bumpType, config.preId)) \in tags
  /\ exitCause = "main"
  /\ exited
  /\ stash = userStash

\* C12: once a call of the Bumping step has failed, the manifest version,
\* the index, the commit history and the tags are what they were when the
\* step started.
C12_FailedBumpLeavesNoTrace ==
  failedAt \cap BumpStepOps # {} =>
    /\ pkgVersion = history[1]
    /\ Len(history) = 1
    /\ createdTag = NoTag
    /\ changes # "index"

\* C13: when the first interrupt arrives while main awaits the stash push or
\* the real `npm version` and the effect of that call is already in the
\* repository, the entry of the effect is recorded and the effect is undone
\* (the stash popped, the commit and the tag removed) when the process has
\* exited.  Stated for an interrupt that finds the ledger empty, where the
\* effect in the repository at the exit is the one present at the interrupt.
C13_LandedEffectIsUndone ==
  (exited /\ ledgerAtInt = << >> /\ pcAtInt \in landedOps) =>
    /\ pcAtInt = "stashPush" =>
         "stash" \in Range(recorded) /\ stash = userStash
    /\ pcAtInt = "npmVersion" =>
         /\ "version" \in Range(recorded)
         /\ createdTag \notin tags
         /\ Len(history) = 1

\* C14: when the first interrupt arrives while main awaits the stash push,
\* the process has exited in that turn, no stash entry is ever recorded and
\* no stash pop is ever started, by the rollback or by main.
C14_InterruptDuringStashPush ==
  pcAtInt = "stashPush" =>
    /\ exited
    /\ "stash" \notin Range(recorded)
    /\ "pop" \notin Range(rbLog)
    /\ "stashPop" \notin Range(mainLog)

\* The interrupt arrived before the stash was saved, and the process exited.
C14_Witness ==
  /\ pcAtInt = "stashPush"
  /\ "stashPush" \notin landedOps
  /\ exited
  /\ changes = "worktree"

\* The stash entry is in the array the variable cleanup is bound to.
StashInLedger == \E i \in 1..Len(cleanup) : cleanup[i].type = "stash"

\* How many times main started the call `op`.
MainStarted(op) == Cardinality({i \in 1..Len(mainLog) : mainLog[i] = op})

\* C15: in a run that recorded the stash, was neither interrupted nor hit by
\* an uncaught error and reports success, main started the stash pop exactly
\* once, the rollback started none, the stash stack is back at its size and
\* the ledger is empty; and once the pop of main has returned successfully
\* the stash entry is out of the ledger.
C15_StashPoppedOnceOnSuccess ==
  /\ (reported /\ "stash" \in Range(recorded) /\ exitCause = "none") =>
       /\ MainStarted("stashPop") = 1
       /\ rbLog = << >>
       /\ stash = userStash
       /\ changes = "worktree"
       /\ cleanup = << >>
  /\ ("stashPop" \in Range(mainLog) /\ pc \notin {"stashPop", "awaitExit"}
        /\ "stashPop" \notin failedAt) => ~StashInLedger

\* A run with a stash reported success after pushing the bump.
C15_Witness ==
  /\ reported
  /\ "stash" \in Range(recorded)
  /\ exitCause = "none"
  /\ "fetch" \in Range(mainLog)
  /\ createdTag \in tags

\* C16: in a run whose working tree has no changed file at the status check
\* main never starts a stash push and no stash entry is ever recorded.
C16_CleanTreeNeverStashes ==
  changes = "none" =>
    /\ "stashPush" \notin Range(mainLog)
    /\ "stash" \notin Range(recorded)
    /\ ~StashInLedger
    /\ stash = userStash

\* A clean tree went through the status check and the bump commit was made.
C16_Witness ==
  /\ changes = "none"
  /\ "npmVersion" \in landedOps
  /\ "version" \in Range(recorded)

\* The inverse operation of the entry of type `t` was started by the replay.
Replayed(t) ==
  (IF t = "stash" THEN "pop" ELSE "reset") \in Range(rbLog)

\* The stash pop of the unstash step returned successfully.
MainPopConfirmed ==
  /\ "stashPop" \in Range(mainLog)
  /\ "stashPop" \notin failedAt
  /\ pc # "stashPop"

\* C17: when the process has exited, every entry that was ever recorded was
\* replayed (its inverse operation was started), or is the stash entry that
\* the successful pop of the unstash step removed, or was cleared when the
\* run reported success; in particular every entry still in the ledger at
\* the exit of a run that did not report success was replayed.
C17_RecordedEntriesAreReplayed ==
  exited =>
    /\ \A i \in 1..Len(recorded) :
         \/ Replayed(recorded[i])
         \/ recorded[i] = "stash" /\ MainPopConfirmed
         \/ reported
    /\ ~reported => \A i \in 1..Len(cleanup) : Replayed(cleanup[i].type)

\* A run ended by an interrupt that found both entries in the ledger, after
\* both were replayed.
C17_Witness ==
  /\ exited
  /\ exitCause = "SIGINT"
  /\ Len(ledgerAtInt) = 2
  /\ Len(cleanup) = 2
  /\ Replayed("stash")
  /\ Replayed("version")

\* The call `op` of main returned successfully after doing its work.
Succeeded(op) ==
  /\ op \in landedOps
  /\ op \notin failedAt
  /\ pc # op

\* C18: a stash entry was recorded only after the stash push returned
\* successfully and a version entry only after the real `npm version`
\* returned successfully; the ledger holds recorded entries only; a failed
\* stash push records nothing and a failed call of the Bumping step records
\* no version entry.
C18_OnlyCompletedEffectsRecorded ==
  /\ "stash" \in Range(recorded) => Succeeded("stashPush")
  /\ "version" \in Range(recorded) => Succeeded("npmVersion")
  /\ \A i \in 1..Len(cleanup) : cleanup[i].type \in Range(recorded)
  /\ "stashPush" \in failedAt => recorded = << >>
  /\ failedAt \cap BumpStepOps # {} => "version" \notin Range(recorded)

\* Both entries were recorded, and a later call failed.
C18_Witness ==
  /\ recorded = << "stash", "version" >>
  /\ Len(cleanup) = 2
  /\ "stashPop" \in failedAt

\* C19: when the branch is not in the allow-list and --force-branch is not
\* given, the process exits with code 1 in the turn of the branch check:
\* main has started no repository-changing call, no child process has
\* changed the repository, nothing was ever recorded and no inverse
\* operation was started; when --force-branch is given on such a branch,
\* main goes on to the status check.
C19_BranchGuard ==
  /\ []("branchRefused" \in checks =>
          /\ exited /\ exitStatus = 1
          /\ mainLog = << >>
          /\ landedOps = {}
          /\ recorded = << >> /\ cleanup = << >>
          /\ rbLog = << >>)
  /\ [][("branchForced" \notin checks /\ "branchForced" \in checks')
          => pc' = "status"]_vars

\* The run was refused on the branch and the process has ended.
C19_Witness ==
  /\ "branchRefused" \in checks
  /\ exited
  /\ pc = "done"

\* C20: when package.json is missing or the directory is not a git
\* repository the process exits with code 1 in the turn of that check: main
\* has started no repository-changing call, the repository is untouched,
\* nothing was ever recorded and performCleanup was never entered.
C20_EnvironmentGuard ==
  ("noPackageJson" \in checks \/ "notRepo" \in checks) =>
    /\ exited /\ exitStatus = 1
    /\ mainLog = << >>
    /\ landedOps = {}
    /\ pkgVersion = history[1] /\ Len(history) = 1
    /\ recorded = << >> /\ cleanup = << >>
    /\ rbLog = << >> /\ cleanupStarts = 0

\* git answered that the directory is not a repository; the process ended.
C20_Witness ==
  /\ "notRepo" \in checks
  /\ exited
  /\ exitCause = "main"

\* C21: when the tree is dirty and the user declines both to commit the
\* changes and to stash them, the process exits with code 1 in the turn of
\* the second answer: main has started no repository-changing call, the
\* repository and the user's changes are untouched, nothing was ever
\* recorded and no inverse operation was started.
C21_DeclinedBothAborts ==
  "declined" \in checks =>
    /\ exited /\ exitStatus = 1
    /\ mainLog = << >>
    /\ landedOps = {}
    /\ pkgVersion = history[1] /\ Len(history) = 1 /\ createdTag = NoTag
    /\ changes = "worktree" /\ stash = userStash
    /\ recorded = << >> /\ cleanup = << >>
    /\ rbLog = << >>

\* The user declined both in a dirty tree and the process has ended.
C21_Witness ==
  /\ "declined" \in checks
  /\ changes = "worktree"
  /\ exited
  /\ exitCause = "main"

\* C22: once success was reported the ledger is empty and the replay has
\* never started an inverse operation in that run.
C22_SuccessMeansNoRollback ==
  reported => cleanup = << >> /\ rbLog = << >>

\* Outcomes of the checks of main that abort the run.
AbortChecks == {"noPackageJson", "notRepo", "branchRefused", "declined"}

\* C23: the exit code is 0 when a run that reported success ends by main
\* returning and when the run was ended by the SIGINT handler; it is 1 when a
\* run that a user interrupt did not end was aborted by one of the checks
\* or had a call of main fail (stash push, a call of the Bumping step, the
\* unstash pop or any other).
C23_ExitCodes ==
  exited =>
    /\ (reported /\ exitCause = "none") => exitStatus = 0
    /\ exitCause = "SIGINT" => exitStatus = 0
    /\ (exitCause # "SIGINT" /\ (checks \cap AbortChecks # {} \/ failedAt # {}))
         => exitStatus = 1

\* The unstash pop failed, the replay ran and the process ended with 1.
C23_Witness ==
  /\ exited
  /\ "stashPop" \in failedAt
  /\ exitCause = "main"
  /\ rbLog # << >>
  /\ exitStatus = 1

\* C24: when the remote query of the push step gives no URL, main starts no
\* push, no push of the tags and no fetch; and when handleExit had not been
\* called by then, success is reported, the ledger is empty, no inverse
\* operation is ever started and the bump commit and its tag stay.
C24_NoRemoteSkipsPush ==
  /\ "noRemote" \in checks =>
       Range(mainLog) \cap {"push", "pushTags", "fetch"} = {}
  /\ "noRemoteQuiet" \in checks =>
       /\ reported
       /\ cleanup = << >>
       /\ rbLog = << >>
       /\ Len(history) = 2 /\ createdTag \in tags
       /\ (exited /\ exitCause \in {"none", "SIGINT"}) => exitStatus = 0

\* The remote gave no URL, success was reported and main has returned; the
\* process ended with the bump in place.
C24_Witness ==
  /\ "noRemoteQuiet" \in checks
  /\ reported
  /\ exited
  /\ exitCause = "none"
  /\ createdTag \in tags

\* The calls of the Pushing step that change the remote or the local refs,
\* in the order main started them.
PushesStarted ==
  SelectSeq(mainLog, LAMBDA op : op \in {"push", "pushTags", "fetch"})

\* C25: main starts the push only after the user confirmed it; the calls
\* started are a prefix of push, push of the tags, fetch; and when the push
\* is started the real `npm version` has made the bump commit and returned
\* successfully and, in a run that recorded a stash, the stash pop of the
\* unstash step has returned successfully.
C25_PushOrder ==
  /\ PushesStarted \in {<< >>, << "push" >>, << "push", "pushTags" >>,
                        << "push", "pushTags", "fetch" >>}
  /\ "push" \in Range(mainLog) =>
       /\ "pushConfirmed" \in checks
       /\ Succeeded("npmVersion")
       /\ "version" \in Range(recorded)
       /\ "stash" \in Range(recorded) => MainPopConfirmed

\* A run with a stash pushed the branch and the tags and started the fetch.
C25_Witness ==
  /\ PushesStarted = << "push", "pushTags", "fetch" >>
  /\ "stash" \in Range(recorded)
  /\ pc = "fetch"

\* C26: the preview calls made since the last successful real `npm version`
\* all printed the same tag, for every kind and starting version.
C26_PreviewIdempotent ==
  \A i, j \in 1..Len(previews) : previews[i] = previews[j]

\* Precedence of semantic versions (semver.org, item 11).  Alphanumeric
\* identifiers compare in ASCII order: "alpha" < "beta" < "rc".
StrRank(str) ==
  CASE str = "alpha" -> 1 [] str = "beta" -> 2 [] str = "rc" -> 3 [] OTHER -> 0

IdLess(x, y) ==
  IF x.num /\ y.num THEN x.n < y.n
  ELSE IF x.num THEN TRUE
  ELSE IF y.num THEN FALSE
  ELSE StrRank(x.s) < StrRank(y.s)

\* p and q are not empty: the first differing identifier decides, and a
\* list that is a proper prefix of the other comes first.
PreLess(p, q) ==
  LET n == IF Len(p) < Len(q) THEN Len(p) ELSE Len(q)
      diff == {i \in 1..n : p[i] # q[i]}
  IN IF diff = {} THEN Len(p) < Len(q)
     ELSE LET k == CHOOSE i \in diff : \A j \in diff : i <= j
          IN IdLess(p[k], q[k])

SemverLess(a, b) ==
  IF a.major # b.major THEN a.major < b.major
  ELSE IF a.minor # b.minor THEN a.minor < b.minor
  ELSE IF a.patch # b.patch THEN a.patch < b.patch
  ELSE IF Len(a.pre) = 0 THEN FALSE
  ELSE IF Len(b.pre) = 0 THEN TRUE
  ELSE PreLess(a.pre, b.pre)

\* The numeric fields below the one the kind increments are zero in w.
LowerFieldsReset(w, kind) ==
  /\ kind \in {"major", "premajor"} => w.minor = 0 /\ w.patch = 0
  /\ kind \in {"minor", "preminor"} => w.patch = 0
  /\ kind \in {"major", "minor", "patch"} => w.pre = << >>
  /\ kind \in {"premajor", "preminor", "prepatch"} =>
       LET i == LastNumeric(w.pre, Len(w.pre)) IN i > 0 /\ w.pre[i].n = 0

\* C27: every version the real `npm version` committed is strictly greater
\* than the version it started from and has the fields below the
\* incremented one reset to zero, for all seven kinds, starting versions and
\* identifiers; 1.2.3 with minor gives 1.3.0 and 1.2.3-beta.2 with
\* prerelease and identifier beta gives 1.2.3-beta.3.
C27_NextVersionIsGreater ==
  /\ \A i \in 1..(Len(history) - 1) :
       /\ SemverLess(history[i], history[i + 1])
       /\ LowerFieldsReset(history[i + 1], config.bumpType)
  /\ NpmVersionInc(Ver(1, 2, 3, << >>), "minor", "") = Ver(1, 3, 0, << >>)
  /\ NpmVersionInc(Ver(1, 2, 3, << Str("beta"), Num(2) >>), "prerelease",
                   "beta")
       = Ver(1, 2, 3, << Str("beta"), Num(3) >>)

\* The entry types of the ledger, in array order.
LedgerTypes == [i \in 1..Len(cleanup) |-> cleanup[i].type]

\* C28: as long as performCleanup has not been entered the ledger is one of
\* [], [stash], [version], [stash, version].
C28_LedgerShape ==
  cleanupStarts = 0 =>
    LedgerTypes \in {<< >>, << "stash" >>, << "version" >>,
                     << "stash", "version" >>}

\* Both entries are in the ledger and no rollback has started.
C28_Witness ==
  /\ cleanupStarts = 0
  /\ ~isExiting
  /\ LedgerTypes = << "stash", "version" >>

\* Successful `git stash push` calls of the run (line 403): at most one.
StashPushes == IF "stashPush" \in landedOps THEN 1 ELSE 0

\* Successful `git stash pop` calls of the run, by the main workflow
\* (line 447) and by the rollback (line 152) together: every entry that
\* left the stash list.
StashPops == userStash + StashPushes - stash

\* C29: the successful stash pops of a run never outnumber its successful
\* stash pushes, so a stash entry the run did not create is never popped.
C29_PopsNeverExceedPushes ==
  /\ StashPushes <= 1
  /\ StashPops <= StashPushes

\* C30: when the process terminates, the uncommitted changes the user had
\* before the run are in the working tree (staged or not), in a stash, or in
\* a commit reachable from the branch head: no rollback destroyed them.
C30_ChangesSurviveRollback ==
  exited => changes # "lost"

\* The hard reset of the replay returned successfully.
ResetSucceeded ==
  /\ "reset" \in Range(rbLog)
  /\ hpc # "reset"
  /\ "reset" \notin rbFailed

\* The tag deletion of the replay returned successfully.
TagDeleteSucceeded ==
  /\ "tagdel" \in Range(rbLog)
  /\ hpc # "tagdel"
  /\ "tagdel" \notin rbFailed

\* C31: the replay of a version entry starts the hard reset first and the
\* deletion of the recorded tag second; the deletion is started exactly when
\* the reset succeeded and the entry carries a non-empty tag; after both
\* calls succeeded neither the bump commit nor the recorded tag remains.
C31_ResetThenTagDelete ==
  /\ \A i \in 1..Len(rbLog) :
       rbLog[i] = "tagdel" =>
         /\ i > 1
         /\ rbLog[i - 1] = "reset"
         /\ "reset" \notin rbFailed
         /\ newTag # NoTag
  /\ ResetSucceeded /\ newTag # NoTag => "tagdel" \in Range(rbLog)
  /\ "reset" \in rbFailed => "tagdel" \notin Range(rbLog)
  /\ ResetSucceeded /\ TagDeleteSucceeded =>
       /\ Len(history) = 1
       /\ pkgVersion = history[1]
       /\ newTag \notin tags

\* A finished replay whose hard reset and tag deletion both succeeded.
C31_Witness ==
  /\ exited
  /\ ResetSucceeded
  /\ TagDeleteSucceeded

C33_StashPushFailure ==
  "stashPush" \in failedAt =>
    /\ recorded = << >>
    /\ cleanup = << >>
    /\ Range(mainLog) \cap BumpStepOps = {}
    /\ "stashPop" \notin Range(mainLog)
    /\ rbLog = << >>
    /\ cleanupStarts = 0
    /\ Len(history) = 1 /\ createdTag = NoTag
    /\ stash = userStash /\ changes = "worktree"
    /\ exited
    /\ exitStatus # 0

\* A run that asked for the stash, whose stash push failed.
C33_Witness ==
  /\ "stashPush" \in failedAt
  /\ config.stashChanges
  /\ exited

====
